---------------------------- MODULE Spec2Model ----------------------------
(***************************************************************************)
(* Discogs -> Udio tag builder: candidate matching, tag derivation and the *)
(* batch driver, as implemented in src/udio_tools.py and src/app.py.       *)
(*                                                                         *)
(* Python strings are modelled as sequences of one-character strings, so   *)
(* that strip, lower, startswith, substring search and the three regular   *)
(* expression substitutions of clean_tokens are computed, not assumed.     *)
(* The repository holds two revisions of the pipeline; the variable rev    *)
(* says which one runs ("udio_tools" or "app").                            *)
(***************************************************************************)
EXTENDS Integers, Sequences, FiniteSets, TLC

(***************************************************************************)
(* Bounds of the model.                                                    *)
(***************************************************************************)
MaxTokens == 3      \* longest raw token list given to clean_tokens
MaxGroup == 2       \* longest styles / genres / formats / labels list
MaxTagsArg == 3     \* largest small max_tags given to build_tag_list
MaxResults == 2     \* longest candidate list returned by a search
MaxYearLen == 5     \* longest year string given to discogs_search
MaxRecords == 3     \* longest batch

(***************************************************************************)
(* Program constants.                                                      *)
(***************************************************************************)
DEFAULT_MAX_TAGS == 12
SliderMin == 5
PopularityDivisor == 100
TitleBonus == 3
ArtistBonus == 2

Revisions == {"udio_tools", "app"}

(***************************************************************************)
(* Strings.                                                                *)
(***************************************************************************)
Whitespace == {" "}
UpperLetters == <<"A","B","C","D","E","F","G","H","I","J","K","L","M",
                  "N","O","P","Q","R","S","T","U","V","W","X","Y","Z">>
LowerLetters == <<"a","b","c","d","e","f","g","h","i","j","k","l","m",
                  "n","o","p","q","r","s","t","u","v","w","x","y","z">>
Digits == {"0","1","2","3","4","5","6","7","8","9"}

Range(s) == {s[k] : k \in 1..Len(s)}

Min(a, b) == IF a <= b THEN a ELSE b

\* a slice that keeps one element too many
TakeOneMore(s, n) == SubSeq(s, 1, Min(n + 1, Len(s)))

\* s[:n] for n >= 0
Take(s, n) == SubSeq(s, 1, Min(n, Len(s)))

\* all sequences over S of length at most n
SeqUpTo(S, n) == UNION {[1..k -> S] : k \in 0..n}

\* the lower-case letter of every upper-case letter
LowerOf == [c \in {UpperLetters[k] : k \in 1..Len(UpperLetters)} |->
               LowerLetters[CHOOSE k \in 1..Len(UpperLetters) : UpperLetters[k] = c]]

\* str.lower(), one character
LowerChar(c) == IF c \in DOMAIN LowerOf THEN LowerOf[c] ELSE c

\* str.lower()
Lower(s) == [k \in 1..Len(s) |-> LowerChar(s[k])]

\* the number of leading characters of s that belong to cs
RECURSIVE LeadCount(_, _)
LeadCount(s, cs) ==
    IF s # <<>> /\ Head(s) \in cs THEN 1 + LeadCount(Tail(s), cs) ELSE 0

\* the number of trailing characters of s that belong to cs
RECURSIVE TrailCount(_, _)
TrailCount(s, cs) ==
    IF s # <<>> /\ s[Len(s)] \in cs
    THEN 1 + TrailCount(SubSeq(s, 1, Len(s) - 1), cs)
    ELSE 0

\* str.lstrip(cs), str.rstrip(cs), str.strip(cs)
LStripChars(s, cs) == SubSeq(s, LeadCount(s, cs) + 1, Len(s))
RStripChars(s, cs) == SubSeq(s, 1, Len(s) - TrailCount(s, cs))
StripChars(s, cs) == RStripChars(LStripChars(s, cs), cs)

\* str.strip()
Strip(s) == StripChars(s, Whitespace)

\* str.startswith(p)
StartsWith(s, p) == Len(p) <= Len(s) /\ SubSeq(s, 1, Len(p)) = p

\* p in s
Contains(s, p) ==
    \E k \in 0..(Len(s) - Len(p)) : SubSeq(s, k + 1, k + Len(p)) = p

\* str.isdigit()
IsDigit(s) == s # <<>> /\ \A k \in 1..Len(s) : s[k] \in Digits

\* sep.join(parts)
RECURSIVE Join(_, _)
Join(sep, parts) ==
    IF parts = <<>> THEN <<>>
    ELSE IF Len(parts) = 1 THEN parts[1]
    ELSE parts[1] \o sep \o Join(sep, Tail(parts))

(***************************************************************************)
(* clean_tokens.                                                           *)
(***************************************************************************)
AndWord == <<" ", "a", "n", "d", " ">>
ParenSlash == {"(", ")", "/"}

\* t.strip().lower()
TrimLower(t) == Lower(Strip(t))

\* re.sub(r"\s*&\s*", " and ", t): leftmost matches, each taking the whole
\* whitespace run before and after the ampersand
RECURSIVE SubAmp(_)
SubAmp(s) ==
    IF s = <<>> THEN <<>>
    ELSE LET w == LeadCount(s, Whitespace) IN
         IF w < Len(s) /\ s[w + 1] = "&"
         THEN AndWord \o SubAmp(LStripChars(SubSeq(s, w + 2, Len(s)), Whitespace))
         ELSE <<Head(s)>> \o SubAmp(Tail(s))

\* re.sub(r"[()/]", " ", t)
SubParen(s) == [k \in 1..Len(s) |-> IF s[k] \in ParenSlash THEN " " ELSE s[k]]

\* re.sub(r"\s+", " ", t)
RECURSIVE CollapseWs(_)
CollapseWs(s) ==
    IF s = <<>> THEN <<>>
    ELSE IF Head(s) \in Whitespace
         THEN <<" ">> \o CollapseWs(LStripChars(s, Whitespace))
         ELSE <<Head(s)>> \o CollapseWs(Tail(s))

\* the three substitutions and the final strip, applied to a non-empty
\* trimmed lower-cased token
Substitute(t) == Strip(CollapseWs(SubParen(SubAmp(t))))

\* the loop of udio_tools.clean_tokens: one pass with the seen set
RECURSIVE CleanLoop(_, _, _)
CleanLoop(tokens, cleaned, seen) ==
    IF tokens = <<>> THEN cleaned
    ELSE LET t == TrimLower(Head(tokens)) IN
         IF t = <<>> THEN CleanLoop(Tail(tokens), cleaned, seen)
         ELSE LET u == Substitute(t) IN
              IF u \notin seen
              THEN CleanLoop(Tail(tokens), Append(cleaned, u), seen \cup {u})
              ELSE CleanLoop(Tail(tokens), cleaned, seen)

\* the first loop of app.clean_tokens: normalise every token
RECURSIVE NormaliseLoop(_, _)
NormaliseLoop(tokens, cleaned) ==
    IF tokens = <<>> THEN cleaned
    ELSE LET t == TrimLower(Head(tokens)) IN
         IF t = <<>> THEN NormaliseLoop(Tail(tokens), cleaned)
         ELSE NormaliseLoop(Tail(tokens), Append(cleaned, Substitute(t)))

\* the second loop of app.clean_tokens: first-seen deduplication
RECURSIVE DedupLoop(_, _, _)
DedupLoop(cleaned, out, seen) ==
    IF cleaned = <<>> THEN out
    ELSE IF Head(cleaned) \notin seen
         THEN DedupLoop(Tail(cleaned), Append(out, Head(cleaned)), seen \cup {Head(cleaned)})
         ELSE DedupLoop(Tail(cleaned), out, seen)

clean_tokens(r, tokens) ==
    IF r = "udio_tools"
    THEN CleanLoop(tokens, <<>>, {})
    ELSE DedupLoop(NormaliseLoop(tokens, <<>>), <<>>, {})

(***************************************************************************)
(* build_tag_list.  A ReleaseDetail is a record: styles, genres, formats   *)
(* and labels are sequences of names, year is a number (0 when the         *)
(* catalogue has none), country a string (empty when absent).              *)
(***************************************************************************)
DigitChars == <<"0","1","2","3","4","5","6","7","8","9">>

\* str(n) for n >= 0
RECURSIVE IntToStr(_)
IntToStr(n) ==
    IF n < 10 THEN <<DigitChars[n + 1]>>
    ELSE IntToStr(n \div 10) \o <<DigitChars[(n % 10) + 1]>>

\* str(rel_json.get("year","")) if rel_json.get("year") else ""
YearString(rel) == IF rel.year # 0 THEN IntToStr(rel.year) ELSE <<>>

\* the flat token list with genres put before styles
RawTokensGenresFirst(rel) ==
    rel.genres \o rel.styles
        \o (IF YearString(rel) # <<>> THEN <<YearString(rel)>> ELSE <<>>)
        \o (IF rel.country # <<>> THEN <<rel.country>> ELSE <<>>)
        \o rel.formats \o rel.labels

\* the flat token list, in the order the code concatenates it
RawTokens(rel) ==
    rel.styles \o rel.genres
        \o (IF YearString(rel) # <<>> THEN <<YearString(rel)>> ELSE <<>>)
        \o (IF rel.country # <<>> THEN <<rel.country>> ELSE <<>>)
        \o rel.formats \o rel.labels

build_tag_list(r, rel, max_tags) == Take(clean_tokens(r, RawTokens(rel)), max_tags)

(***************************************************************************)
(* score_result and choose_best.  A CandidateResult is a record with the   *)
(* fields id, title and have (the community popularity count).  None is    *)
(* the empty sequence, a chosen candidate c the sequence <<c>>.            *)
(***************************************************************************)
None == <<>>

score_result(r, cand, title_low, artist_low) ==
    LET ttl == Lower(cand.title)
        titlePart ==
            IF r = "udio_tools"
            THEN (IF title_low # <<>> /\ StartsWith(ttl, title_low) THEN TitleBonus ELSE 0)
            ELSE (IF StartsWith(ttl, title_low) THEN TitleBonus ELSE 0)
        artistPart ==
            IF artist_low # <<>> /\ Contains(ttl, artist_low) THEN ArtistBonus ELSE 0
    IN  titlePart + artistPart + (cand.have \div PopularityDivisor)

\* max(results, key=...): the running maximum is replaced only by a
\* strictly greater key
RECURSIVE MaxLoop(_, _, _, _, _)
MaxLoop(r, rest, best, title_low, artist_low) ==
    IF rest = <<>> THEN best
    ELSE IF score_result(r, Head(rest), title_low, artist_low)
              > score_result(r, best, title_low, artist_low)
         THEN MaxLoop(r, Tail(rest), Head(rest), title_low, artist_low)
         ELSE MaxLoop(r, Tail(rest), best, title_low, artist_low)

\* a maximum search that lets a later equal key replace the running maximum
RECURSIVE MaxLoopLast(_, _, _, _, _)
MaxLoopLast(r, rest, best, title_low, artist_low) ==
    IF rest = <<>> THEN best
    ELSE IF score_result(r, Head(rest), title_low, artist_low)
              >= score_result(r, best, title_low, artist_low)
         THEN MaxLoopLast(r, Tail(rest), Head(rest), title_low, artist_low)
         ELSE MaxLoopLast(r, Tail(rest), best, title_low, artist_low)

choose_best_last(r, results, title, artist) ==
    IF results = <<>> THEN None
    ELSE <<MaxLoopLast(r, Tail(results), Head(results), Lower(title), Lower(artist))>>

choose_best(r, results, title, artist) ==
    IF results = <<>> THEN None
    ELSE <<MaxLoop(r, Tail(results), Head(results), Lower(title), Lower(artist))>>

(***************************************************************************)
(* discogs_search: the request parameters.  The year filter is None or     *)
(* <<y>> for a filter value y.                                             *)
(***************************************************************************)
discogs_search_params(r, title, artist, year) ==
    [ q |-> Strip(title \o <<" ">> \o artist),
      year |->
        IF year = <<>> THEN None
        ELSE IF r = "udio_tools"
             THEN LET y == RStripChars(year, {"s"}) IN
                  IF IsDigit(y) THEN <<y>> ELSE None
             ELSE <<year>> ]

(***************************************************************************)
(* The batch driver of run_udio_tag_builder.                               *)
(***************************************************************************)
NO_MATCH == <<"N","O","_","M","A","T","C","H">>
ErrorPrefix == <<"E","R","R","O","R",":"," ">>
CommaSpace == <<",", " ">>
LabelSeparator == <<" ", "-", " ">>
LabelStripChars == {" ", "-"}

\* a JSON null where a name is expected
NoneName == <<"<None>">>

\* str(e) of the AttributeError raised by None.strip()
AttributeErrorMessage ==
    <<"'","N","o","n","e","T","y","p","e","'"," ","o","b","j","e","c","t"," ",
      "h","a","s"," ","n","o"," ","a","t","t","r","i","b","u","t","e"," ",
      "'","s","t","r","i","p","'">>

\* f"{title} - {artist}".strip(" -")
Label(title, artist) == StripChars(title \o LabelSeparator \o artist, LabelStripChars)

\* if best:  (a candidate is a dict that holds at least its id)
TruthyAlways(best) == TRUE

Truthy(best) == best # None /\ DOMAIN best[1] # {}

\* an empty tag list where the sentinel belongs
NoMatchTagsEmpty == <<>>

\* tags = ["NO_MATCH"]
NoMatchTags == <<NO_MATCH>>

\* the sentinel without the exception's message
ErrorTagsNoMessage(msg) == <<ErrorPrefix>>

\* tags = [f"ERROR: {e}"]
ErrorTags(msg) == <<ErrorPrefix \o msg>>

\* clean_tokens calls t.strip() on every token: a null name raises
DeriveRaises(rel) == NoneName \in Range(RawTokens(rel))

\* an accumulator that keeps only the rows that are not NO_MATCH
RowsAfterSkipNoMatch(rows, label, tags) ==
    IF tags = <<NO_MATCH>> THEN rows
    ELSE Append(rows, [input_title |-> label, udio_tags |-> Join(CommaSpace, tags)])

\* out_rows.append({"input_title": label, "udio_tags": ", ".join(tags)})
RowsAfter(rows, label, tags) ==
    Append(rows, [input_title |-> label, udio_tags |-> Join(CommaSpace, tags)])

(***************************************************************************)
(* The Input Normalizer for pasted text: parse_line_natively and the       *)
(* ingest of app.run_udio_tag_builder, and udio_tools.read_manual_paste.   *)
(* A text is the sequence of its lines (str.splitlines); the en dash is    *)
(* the one character EnDash.                                               *)
(***************************************************************************)
EnDash == "<en dash>"
HyphenChars == {"-", EnDash}
ByWord == <<" ", "b", "y", " ">>

\* the positions of the commas of s
CommaPositions(s) == {k \in 1..Len(s) : s[k] = ","}

\* \d{4}s?$ under re.I
IsYearToken(s) ==
    \/ Len(s) = 4 /\ IsDigit(s)
    \/ Len(s) = 5 /\ IsDigit(SubSeq(s, 1, 4)) /\ LowerChar(s[5]) = "s"

\* (?P<artist>.+?)(?:,\s*(?P<year>\d{4}s?))?$ on a non-empty body: the
\* comma that starts the year group, 0 when the group does not take part
YearComma(body) ==
    IF \E c \in CommaPositions(body) :
           c >= 2 /\ IsYearToken(LStripChars(SubSeq(body, c + 1, Len(body)), Whitespace))
    THEN CHOOSE c \in CommaPositions(body) :
           c >= 2 /\ IsYearToken(LStripChars(SubSeq(body, c + 1, Len(body)), Whitespace))
    ELSE 0

\* the groups title, artist and year of a match, as the code returns them
MatchGroups(titlePart, body) ==
    LET c == YearComma(body) IN
    [title |-> Strip(titlePart),
     artist |-> Strip(IF c = 0 THEN body ELSE SubSeq(body, 1, c - 1)),
     year |-> IF c = 0 THEN <<>>
              ELSE LStripChars(SubSeq(body, c + 1, Len(body)), Whitespace)]

\* ^(?P<title>.+?)\s*[-–]\s*(?P<artist>.+?)...: the hyphens with a
\* character before and a character after them
SplittingHyphens(line) ==
    {h \in 2..(Len(line) - 1) : line[h] \in HyphenChars}

\* ^(?P<title>.+?) by (?P<artist>.+?)...: the places of " by " with a
\* character before and a character after it
SplittingBys(line) ==
    {k \in 2..(Len(line) - 4) : Lower(SubSeq(line, k, k + 3)) = ByWord}

LeastOf(S) == CHOOSE m \in S : \A n \in S : m <= n

\* the artist part after \s*: the greedy white space gives one character
\* back when nothing else is left for the artist
AfterHyphen(rest) ==
    IF LeadCount(rest, Whitespace) = Len(rest)
    THEN SubSeq(rest, Len(rest), Len(rest))
    ELSE LStripChars(rest, Whitespace)

\* line.rsplit(",", 2), every part stripped
RSplitTwo(line) ==
    LET cs == CommaPositions(line) IN
    IF Cardinality(cs) < 2 THEN <<Strip(line)>>
    ELSE LET c2 == CHOOSE m \in cs : \A n \in cs : n <= m
             c1 == CHOOSE m \in cs \ {c2} : \A n \in cs \ {c2} : n <= m
         IN  << Strip(SubSeq(line, 1, c1 - 1)),
                Strip(SubSeq(line, c1 + 1, c2 - 1)),
                Strip(SubSeq(line, c2 + 1, Len(line))) >>

\* parse_line_natively: <<record>>, or None when no rule applies
parse_line_natively(line) ==
    IF SplittingHyphens(line) # {}
    THEN LET h == LeastOf(SplittingHyphens(line)) IN
         << MatchGroups(SubSeq(line, 1, h - 1),
                        AfterHyphen(SubSeq(line, h + 1, Len(line)))) >>
    ELSE IF SplittingBys(line) # {}
    THEN LET k == LeastOf(SplittingBys(line)) IN
         << MatchGroups(SubSeq(line, 1, k - 1), SubSeq(line, k + 4, Len(line))) >>
    ELSE IF Len(RSplitTwo(line)) = 3
    THEN << [title |-> RSplitTwo(line)[1], artist |-> RSplitTwo(line)[2],
             year |-> RSplitTwo(line)[3]] >>
    ELSE None

Newline == "\n"

\* s.split(ch): the pieces of s between the occurrences of ch
RECURSIVE SplitLoop(_, _, _, _)
SplitLoop(s, ch, piece, k) ==
    IF k > Len(s) THEN <<piece>>
    ELSE IF s[k] = ch THEN <<piece>> \o SplitLoop(s, ch, <<>>, k + 1)
    ELSE SplitLoop(s, ch, Append(piece, s[k]), k + 1)

Split(s, ch) == SplitLoop(s, ch, <<>>, 1)

\* str.splitlines for texts whose only line boundary is Newline: no empty
\* last line after a final boundary
splitlines(text) ==
    LET pieces == Split(text, Newline) IN
    IF pieces[Len(pieces)] = <<>> THEN SubSeq(pieces, 1, Len(pieces) - 1) ELSE pieces

\* [l for l in lines if l.strip()]
RECURSIVE NonBlank(_)
NonBlank(lines) ==
    IF lines = <<>> THEN <<>>
    ELSE IF Strip(Head(lines)) = <<>> THEN NonBlank(Tail(lines))
    ELSE <<Head(lines)>> \o NonBlank(Tail(lines))

\* the record udio_tools.read_manual_paste builds of one non-blank line
PasteRow(line) ==
    LET parts == Split(line, ",") IN
    [title |-> Strip(parts[1]),
     artist |-> IF Len(parts) > 1 THEN Strip(parts[2]) ELSE <<>>,
     year |-> IF Len(parts) > 2 THEN Strip(parts[3]) ELSE <<>>]

read_manual_paste(text) ==
    LET lines == NonBlank(splitlines(text)) IN
    [k \in 1..Len(lines) |-> PasteRow(lines[k])]

\* the loop of app.run_udio_tag_builder over the non-blank lines: the
\* records of the lines a rule applies to, and the other lines
RECURSIVE ParsedOf(_)
ParsedOf(lines) ==
    IF lines = <<>> THEN <<>>
    ELSE parse_line_natively(Head(lines)) \o ParsedOf(Tail(lines))

RECURSIVE AmbiguousOf(_)
AmbiguousOf(lines) ==
    IF lines = <<>> THEN <<>>
    ELSE (IF parse_line_natively(Head(lines)) = None THEN <<Head(lines)>> ELSE <<>>)
         \o AmbiguousOf(Tail(lines))

(***************************************************************************)
(* State.                                                                  *)
(***************************************************************************)
VARIABLES
    rev,        \* the revision that runs
    ct_pc,      \* clean_tokens harness: "in", "cleaned", "recleaned"
    ct_tokens,  \* raw token list
    ct_out,     \* clean_tokens(ct_tokens)
    ct_again,   \* clean_tokens(ct_out)
    bt_pc,      \* build_tag_list harness: "in", "built"
    bt_rel,     \* the ReleaseDetail
    bt_max,     \* max_tags
    bt_out,     \* build_tag_list(bt_rel, bt_max)
    rk_pc,      \* ranking harness: "in", "ranked"
    rk_title,   \* the record's title
    rk_artist,  \* the record's artist
    rk_results, \* the candidate list
    rk_scores,  \* score_result of every candidate
    rk_best,    \* choose_best(rk_results, rk_title, rk_artist)
    sq_pc,      \* discogs_search harness: "in", "sent"
    sq_record,  \* the record searched for
    sq_params,  \* the request parameters sent
    pc,         \* batch driver: "search", "fetch", "done"
    df,         \* the InputRecords
    max_tags,   \* the slider's value
    idx,        \* the loop index: rows completed so far
    best,       \* this record's chosen candidate
    out_rows,   \* the OutputRows
    progress,   \* the progress bar's value, a fraction
    hist,       \* per record started: the calls made and what they returned
    nz_pc,      \* free-text ingest: "in", "gpt", "done", "aborted"
    nz_text,    \* the pasted text
    nz_parsed,  \* app: the records parsed so far
    nz_ambiguous, \* app: the lines no rule applied to
    nz_records, \* the InputRecords handed to the batch loop
    nz_calls    \* the calls made to the OpenAI API

vars == <<rev, ct_pc, ct_tokens, ct_out, ct_again, bt_pc, bt_rel, bt_max, bt_out,
          rk_pc, rk_title, rk_artist, rk_results, rk_scores, rk_best,
          sq_pc, sq_record, sq_params,
          pc, df, max_tags, idx, best, out_rows, progress, hist,
          nz_pc, nz_text, nz_parsed, nz_ambiguous, nz_records, nz_calls>>

ct_vars == <<ct_pc, ct_tokens, ct_out, ct_again>>
bt_vars == <<bt_pc, bt_rel, bt_max, bt_out>>
rk_vars == <<rk_pc, rk_title, rk_artist, rk_results, rk_scores, rk_best>>
sq_vars == <<sq_pc, sq_record, sq_params>>
driver_vars == <<pc, df, max_tags, idx, best, out_rows, progress, hist>>
nz_vars == <<nz_pc, nz_text, nz_parsed, nz_ambiguous, nz_records, nz_calls>>

\* raw tokens as catalogue metadata carries them
TokenPool ==
    { <<>>,
      <<" ">>,
      <<"P","o","p">>,
      <<"p","o","p"," ">>,
      <<"R","&","B">>,
      <<"r"," ","a","n","d"," ","b">>,
      <<"(">>,
      <<"7","/","(","x",")">>,
      <<"7"," "," ","x">>,
      <<" ","&"," ">> }

CleanIdle ==
    /\ ct_pc = "off"
    /\ ct_tokens = <<>>
    /\ ct_out = <<>>
    /\ ct_again = <<>>

EmptyRelease ==
    [styles |-> <<>>, genres |-> <<>>, year |-> 0, country |-> <<>>,
     formats |-> <<>>, labels |-> <<>>]

TagsIdle ==
    /\ bt_pc = "off"
    /\ bt_rel = EmptyRelease
    /\ bt_max = DEFAULT_MAX_TAGS
    /\ bt_out = <<>>

RankIdle ==
    /\ rk_pc = "off"
    /\ rk_title = <<>>
    /\ rk_artist = <<>>
    /\ rk_results = <<>>
    /\ rk_scores = <<>>
    /\ rk_best = None

EmptyRecord == [title |-> <<>>, artist |-> <<>>, year |-> <<>>]

SearchIdle ==
    /\ sq_pc = "off"
    /\ sq_record = EmptyRecord
    /\ sq_params = [q |-> <<>>, year |-> None]

DriverIdle ==
    /\ pc = "off"
    /\ df = <<>>
    /\ max_tags = DEFAULT_MAX_TAGS
    /\ idx = 0
    /\ best = None
    /\ out_rows = <<>>
    /\ progress = [num |-> 0, den |-> 1]
    /\ hist = <<>>

NormIdle ==
    /\ nz_pc = "off"
    /\ nz_text = <<>>
    /\ nz_parsed = <<>>
    /\ nz_ambiguous = <<>>
    /\ nz_records = <<>>
    /\ nz_calls = 0

InitClean ==
    /\ rev \in Revisions
    /\ ct_pc = "in"
    /\ ct_tokens \in SeqUpTo(TokenPool, MaxTokens)
    /\ ct_out = <<>>
    /\ ct_again = <<>>
    /\ TagsIdle
    /\ RankIdle
    /\ SearchIdle
    /\ DriverIdle
    /\ NormIdle

\* clean_tokens applied to the raw tokens
CleanStep ==
    /\ ct_pc = "in"
    /\ ct_out' = clean_tokens(rev, ct_tokens)
    /\ ct_pc' = "cleaned"
    /\ UNCHANGED <<rev, ct_tokens, ct_again, bt_vars, rk_vars, sq_vars, driver_vars, nz_vars>>

\* clean_tokens applied to its own output
RecleanStep ==
    /\ ct_pc = "cleaned"
    /\ ct_again' = clean_tokens(rev, ct_out)
    /\ ct_pc' = "recleaned"
    /\ UNCHANGED <<rev, ct_tokens, ct_out, bt_vars, rk_vars, sq_vars, driver_vars, nz_vars>>

NextClean == CleanStep \/ RecleanStep

SpecClean == InitClean /\ [][NextClean]_vars


(***************************************************************************)
(* C6: tag normalisation is idempotent: clean_tokens applied to its own    *)
(* output returns that output unchanged, also for tokens made only of      *)
(* '&', '(', ')', '/' and whitespace.                                      *)
(***************************************************************************)
C6_CleanIdempotent == ct_pc = "recleaned" => ct_again = ct_out

(***************************************************************************)
(* build_tag_list on its own.                                              *)
(***************************************************************************)
StylePool == { <<"P","o","p">>, <<"(">> }
GenrePool == { <<"p","o","p"," ">>, <<"R","&","B">> }
FormatPool == { <<"r"," ","a","n","d"," ","b">> }
LabelPool == { <<"u","s">> }
YearPool == {0, 1978}
CountryPool == { <<>>, <<"U","S">> }

ReleaseSpace ==
    [styles : SeqUpTo(StylePool, MaxGroup),
     genres : SeqUpTo(GenrePool, MaxGroup),
     year : YearPool,
     country : CountryPool,
     formats : SeqUpTo(FormatPool, MaxGroup),
     labels : SeqUpTo(LabelPool, MaxGroup)]

InitTags ==
    /\ rev \in Revisions
    /\ bt_pc = "in"
    /\ bt_rel \in ReleaseSpace
    /\ bt_max \in (1..MaxTagsArg) \cup {DEFAULT_MAX_TAGS}
    /\ bt_out = <<>>
    /\ CleanIdle
    /\ RankIdle
    /\ SearchIdle
    /\ DriverIdle
    /\ NormIdle

BuildStep ==
    /\ bt_pc = "in"
    /\ bt_out' = build_tag_list(rev, bt_rel, bt_max)
    /\ bt_pc' = "built"
    /\ UNCHANGED <<rev, bt_rel, bt_max, ct_vars, rk_vars, sq_vars, driver_vars, nz_vars>>

NextTags == BuildStep

SpecTags == InitTags /\ [][NextTags]_vars

(***************************************************************************)
(* C5: build_tag_list returns at most max_tags tokens, and no two of them  *)
(* are equal when compared case-insensitively.                             *)
(***************************************************************************)
C5_TagListBounded ==
    bt_pc = "built" =>
        /\ Len(bt_out) <= bt_max
        /\ \A j, k \in 1..Len(bt_out) :
              j # k => Lower(bt_out[j]) # Lower(bt_out[k])

\* a list that was truncated and whose raw tokens held a duplicate
C5_Witness ==
    /\ bt_pc = "built"
    /\ Len(bt_out) = bt_max
    /\ Len(clean_tokens(rev, RawTokens(bt_rel))) > bt_max
    /\ \E j, k \in 1..Len(RawTokens(bt_rel)) :
          /\ j < k
          /\ RawTokens(bt_rel)[j] # RawTokens(bt_rel)[k]
          /\ Lower(Strip(RawTokens(bt_rel)[j])) = Lower(Strip(RawTokens(bt_rel)[k]))
          /\ Lower(Strip(RawTokens(bt_rel)[j])) \in Range(bt_out)

(***************************************************************************)
(* C7: build_tag_list's result is the first max_tags elements of the       *)
(* first-seen-order deduplication of the normalised tokens taken in the    *)
(* precedence order styles, genres, year (if present), country (if         *)
(* present), formats, labels; a token of a later group never precedes a    *)
(* distinct token of an earlier group.                                     *)
(*                                                                         *)
(* The order is stated by position: every normalised token has a first     *)
(* occurrence <<group, index>>; the result lists tokens by increasing      *)
(* first occurrence, and every token left out occurs first after all the   *)
(* tokens kept.                                                            *)
(***************************************************************************)
PrecedenceGroups(rel) ==
    << rel.styles,
       rel.genres,
       IF rel.year # 0 THEN <<IntToStr(rel.year)>> ELSE <<>>,
       IF rel.country # <<>> THEN <<rel.country>> ELSE <<>>,
       rel.formats,
       rel.labels >>

GroupPositions(rel) ==
    UNION { {<<g, p>> : p \in 1..Len(PrecedenceGroups(rel)[g])} :
            g \in 1..Len(PrecedenceGroups(rel)) }

RawAt(rel, a) == PrecedenceGroups(rel)[a[1]][a[2]]

\* the normalised token at every position whose token is not dropped
NormalisedAt(rel) ==
    [a \in {b \in GroupPositions(rel) : TrimLower(RawAt(rel, b)) # <<>>}
        |-> Substitute(TrimLower(RawAt(rel, a)))]

Before(a, b) == a[1] < b[1] \/ (a[1] = b[1] /\ a[2] < b[2])

\* the positions of norm that hold x
Occurrences(norm, x) == {a \in DOMAIN norm : norm[a] = x}

FirstOccurrence(norm, x) ==
    CHOOSE a \in Occurrences(norm, x) :
        \A b \in Occurrences(norm, x) : a = b \/ Before(a, b)

C7_PrecedenceOrder ==
    bt_pc = "built" =>
        LET norm == NormalisedAt(bt_rel)
            all == {norm[a] : a \in DOMAIN norm}
            first == [x \in all |-> FirstOccurrence(norm, x)]
        IN  /\ Len(bt_out) = Min(bt_max, Cardinality(all))
            /\ \A k \in 1..Len(bt_out) : bt_out[k] \in all
            /\ \A j, k \in 1..Len(bt_out) :
                  j < k => Before(first[bt_out[j]], first[bt_out[k]])
            /\ \A x \in all \ Range(bt_out) :
                  \A k \in 1..Len(bt_out) : Before(first[bt_out[k]], first[x])

\* a truncated list with tokens of three groups, one of them met again in
\* a later group
C7_Witness ==
    /\ bt_pc = "built"
    /\ LET norm == NormalisedAt(bt_rel)
           all == {norm[a] : a \in DOMAIN norm}
       IN  /\ Len(bt_out) = bt_max
           /\ Cardinality(all) > bt_max
           /\ \A k \in 1..Len(bt_out) : bt_out[k] \in all
           /\ Cardinality({FirstOccurrence(norm, bt_out[k])[1] : k \in 1..Len(bt_out)}) >= 3
           /\ \E k \in 1..Len(bt_out) :
                 \E a, b \in Occurrences(norm, bt_out[k]) : a[1] < b[1]

(***************************************************************************)
(* score_result and choose_best on their own.                              *)
(***************************************************************************)
TitlePool == { <<>>, <<"A","b">>, <<"x">> }
ArtistPool == { <<>>, <<"Q">> }
CandidateTitles == { <<"A","b"," ","q">>, <<"Q"," ","a","b">>, <<"x">> }
CandidateHaves == {0, 99, 100, 250}
CandidateIds == {1, 2}

CandidatePool == [id : CandidateIds, title : CandidateTitles, have : CandidateHaves]

InitRank ==
    /\ rev \in Revisions
    /\ rk_pc = "in"
    /\ rk_title \in TitlePool
    /\ rk_artist \in ArtistPool
    /\ rk_results \in SeqUpTo(CandidatePool, MaxResults)
    /\ rk_scores = <<>>
    /\ rk_best = None
    /\ CleanIdle
    /\ TagsIdle
    /\ SearchIdle
    /\ DriverIdle
    /\ NormIdle

RankStep ==
    /\ rk_pc = "in"
    /\ rk_scores' = [k \in 1..Len(rk_results) |->
                        score_result(rev, rk_results[k], Lower(rk_title), Lower(rk_artist))]
    /\ rk_best' = choose_best(rev, rk_results, rk_title, rk_artist)
    /\ rk_pc' = "ranked"
    /\ UNCHANGED <<rev, rk_title, rk_artist, rk_results, ct_vars, bt_vars, sq_vars, driver_vars, nz_vars>>

NextRank == RankStep

SpecRank == InitRank /\ [][NextRank]_vars

(***************************************************************************)
(* C8: score_result is 3 if the input title is non-empty and the           *)
(* lower-cased candidate title starts with the lower-cased input title,    *)
(* plus 2 if the input artist is non-empty and occurs in the lower-cased   *)
(* candidate title, plus floor(have / 100); an empty input title never     *)
(* contributes the 3.                                                      *)
(***************************************************************************)
C8_ScoreFormula ==
    rk_pc = "ranked" =>
        \A k \in 1..Len(rk_results) :
            rk_scores[k] =
                (IF rk_title # <<>>
                    /\ StartsWith(Lower(rk_results[k].title), Lower(rk_title))
                 THEN 3 ELSE 0)
                + (IF rk_artist # <<>>
                      /\ Contains(Lower(rk_results[k].title), Lower(rk_artist))
                   THEN 2 ELSE 0)
                + (CHOOSE q \in 0..rk_results[k].have :
                      q * 100 <= rk_results[k].have /\ rk_results[k].have < (q + 1) * 100)

(***************************************************************************)
(* C9: for a non-empty candidate list choose_best returns a candidate of   *)
(* maximal score, namely the first one in list order among those sharing   *)
(* the maximum.                                                            *)
(***************************************************************************)
C9_FirstMaximum ==
    (rk_pc = "ranked" /\ rk_results # <<>>) =>
        \E m \in 1..Len(rk_results) :
            /\ rk_best = <<rk_results[m]>>
            /\ \A k \in 1..Len(rk_results) : rk_scores[k] <= rk_scores[m]
            /\ \A k \in 1..(m - 1) : rk_scores[k] < rk_scores[m]

\* two different candidates share the maximal score and the earlier is chosen
C9_Witness ==
    /\ rk_pc = "ranked"
    /\ \E m, n \in 1..Len(rk_results) :
          /\ m < n
          /\ rk_results[m] # rk_results[n]
          /\ rk_scores[m] = rk_scores[n]
          /\ \A k \in 1..Len(rk_results) : rk_scores[k] <= rk_scores[m]
          /\ rk_scores[m] > 0
          /\ rk_best = <<rk_results[m]>>

(***************************************************************************)
(* discogs_search's request on its own.                                    *)
(***************************************************************************)
YearAlphabet == {"1", "s", "x"}

InitSearch ==
    /\ rev \in Revisions
    /\ sq_pc = "in"
    /\ sq_record \in [title : TitlePool, artist : ArtistPool,
                      year : SeqUpTo(YearAlphabet, MaxYearLen)]
    /\ sq_params = [q |-> <<>>, year |-> None]
    /\ CleanIdle
    /\ TagsIdle
    /\ RankIdle
    /\ DriverIdle
    /\ NormIdle

SendStep ==
    /\ sq_pc = "in"
    /\ sq_params' = discogs_search_params(rev, sq_record.title, sq_record.artist,
                                          sq_record.year)
    /\ sq_pc' = "sent"
    /\ UNCHANGED <<rev, sq_record, ct_vars, bt_vars, rk_vars, driver_vars, nz_vars>>

NextSearch == SendStep

SpecSearch == InitSearch /\ [][NextSearch]_vars

(***************************************************************************)
(* C10: discogs_search sends a year filter only when the record's year is  *)
(* a plain 4-digit value; for a decade-suffixed year, an empty year or any *)
(* other value it sends none.                                              *)
(***************************************************************************)
C10_YearFilterOnlyFourDigits ==
    (sq_pc = "sent" /\ sq_params.year # None) =>
        (Len(sq_record.year) = 4 /\ IsDigit(sq_record.year))

(***************************************************************************)
(* The batch driver: the loop of run_udio_tag_builder over the records,    *)
(* with the two external calls answered by the catalogue (a result or an   *)
(* exception).                                                             *)
(***************************************************************************)
RecordPool ==
    { [title |-> <<"A","b">>, artist |-> <<"Q">>, year |-> <<"1","9","7","5">>],
      [title |-> <<"x">>, artist |-> <<>>, year |-> <<"1","9","7","0","s">>] }

DriverCandidates ==
    { [id |-> 1, title |-> <<"A","b"," ","q">>, have |-> 0],
      [id |-> 2, title |-> <<"x">>, have |-> 250] }

RichRelease ==
    [styles |-> << <<"P","o","p">> >>,
     genres |-> << <<"p","o","p"," ">>, <<"R","&","B">> >>,
     year |-> 1978,
     country |-> <<"U","S">>,
     formats |-> << <<"L","P">> >>,
     labels |-> << <<"A","&","M">>, <<"u","s">> >>]

\* every token of the release normalises to nothing
ParenRelease == [EmptyRelease EXCEPT !.styles = << <<"(">> >>]

\* a label whose name is null
NullNameRelease ==
    [EmptyRelease EXCEPT !.styles = << <<"P","o","p">> >>, !.labels = <<NoneName>>]

DriverReleases == {RichRelease, EmptyRelease, ParenRelease, NullNameRelease}

\* str(e) of a failed search request and of a failed detail request
SearchMessages == { <<"t","i","m","e","d"," ","o","u","t">> }
FetchMessages == { <<"4","0","4">> }

NoCall == [search |-> "none", fetch |-> "none", derive |-> "none",
           params |-> [q |-> <<>>, year |-> None],
           rel |-> EmptyRelease, msg |-> <<>>]

Init ==
    /\ rev \in Revisions
    /\ df \in SeqUpTo(RecordPool, MaxRecords)
    /\ max_tags \in {SliderMin, DEFAULT_MAX_TAGS}
    /\ pc = IF df = <<>> THEN "done" ELSE "search"
    /\ idx = 0
    /\ best = None
    /\ out_rows = <<>>
    /\ progress = [num |-> 0, den |-> 1]
    /\ hist = <<>>
    /\ CleanIdle
    /\ TagsIdle
    /\ RankIdle
    /\ SearchIdle
    /\ NormIdle

\* the request discogs_search sends for the current record
CurrentParams ==
    discogs_search_params(rev, df[idx + 1].title, df[idx + 1].artist, df[idx + 1].year)

\* the end of the loop body: the row is appended, the progress bar is
\* updated and the loop moves to the next record, which assigns best anew
\* before reading it
ProgressAfterNext(i, total) == [num |-> i + 2, den |-> total]

\* progress.progress((i+1)/total), the quotient kept as a fraction
ProgressAfter(i, total) == [num |-> i + 1, den |-> total]

FinishRecord(tags) ==
    /\ out_rows' = RowsAfter(out_rows, Label(df[idx + 1].title, df[idx + 1].artist), tags)
    /\ progress' = ProgressAfter(idx, Len(df))
    /\ idx' = idx + 1
    /\ pc' = IF idx + 1 < Len(df) THEN "search" ELSE "done"
    /\ best' = None

\* discogs_search returns a candidate list and choose_best picks from it:
\* the driver goes on to fetch the detail, or ends the record as NO_MATCH
SearchReturns ==
    /\ pc = "search"
    /\ \E res \in SeqUpTo(DriverCandidates, MaxResults) :
          LET b == choose_best(rev, res, df[idx + 1].title, df[idx + 1].artist)
              h == [NoCall EXCEPT !.params = CurrentParams,
                                  !.search = IF res = <<>> THEN "empty" ELSE "found"]
          IN  /\ hist' = Append(hist, h)
              /\ IF Truthy(b)
                 THEN /\ pc' = "fetch"
                      /\ best' = b
                      /\ UNCHANGED <<idx, out_rows, progress>>
                 ELSE FinishRecord(NoMatchTags)
    /\ UNCHANGED <<rev, df, max_tags, ct_vars, bt_vars, rk_vars, sq_vars, nz_vars>>

\* discogs_search raises (timeout, HTTP error, malformed body)
SearchRaises ==
    /\ pc = "search"
    /\ \E msg \in SearchMessages :
          /\ hist' = Append(hist, [NoCall EXCEPT !.params = CurrentParams,
                                                 !.search = "error",
                                                 !.msg = msg])
          /\ FinishRecord(ErrorTags(msg))
    /\ UNCHANGED <<rev, df, max_tags, ct_vars, bt_vars, rk_vars, sq_vars, nz_vars>>

\* get_release returns the chosen candidate's detail; build_tag_list
\* derives the tags or raises
FetchReturns ==
    /\ pc = "fetch"
    /\ \E rel \in DriverReleases :
          IF DeriveRaises(rel)
          THEN /\ hist' = [hist EXCEPT ![Len(hist)] =
                              [@ EXCEPT !.fetch = "ok", !.rel = rel, !.derive = "error",
                                        !.msg = AttributeErrorMessage]]
               /\ FinishRecord(ErrorTags(AttributeErrorMessage))
          ELSE /\ hist' = [hist EXCEPT ![Len(hist)] =
                              [@ EXCEPT !.fetch = "ok", !.rel = rel, !.derive = "ok"]]
               /\ FinishRecord(build_tag_list(rev, rel, max_tags))
    /\ UNCHANGED <<rev, df, max_tags, ct_vars, bt_vars, rk_vars, sq_vars, nz_vars>>

\* get_release raises
FetchRaises ==
    /\ pc = "fetch"
    /\ \E msg \in FetchMessages :
          /\ hist' = [hist EXCEPT ![Len(hist)] =
                         [@ EXCEPT !.fetch = "error", !.msg = msg]]
          /\ FinishRecord(ErrorTags(msg))
    /\ UNCHANGED <<rev, df, max_tags, ct_vars, bt_vars, rk_vars, sq_vars, nz_vars>>

Next ==
    \/ SearchReturns
    \/ SearchRaises
    \/ FetchReturns
    \/ FetchRaises

Spec == Init /\ [][Next]_vars

\* record k ended in a failure of its search, its detail fetch or its tag
\* derivation
Failed(h) == h.search = "error" \/ h.fetch = "error" \/ h.derive = "error"

(***************************************************************************)
(* C1: the batch driver finishes with exactly one OutputRow per            *)
(* InputRecord, whatever the per-record outcomes, and the k-th row belongs *)
(* to the k-th record: it carries that record's label and was produced     *)
(* from the search issued for that record.                                 *)
(***************************************************************************)
C1_OneRowPerRecord ==
    /\ Len(out_rows) = idx
    /\ idx <= Len(df)
    /\ pc = "done" => Len(out_rows) = Len(df)
    /\ \A k \in 1..Len(out_rows) :
          /\ out_rows[k].input_title
                = StripChars(df[k].title \o <<" ", "-", " ">> \o df[k].artist, {" ", "-"})
          /\ hist[k].params.q = Strip(df[k].title \o <<" ">> \o df[k].artist)

\* a finished batch of three records, neighbours differing, with a tagged
\* row, a NO_MATCH row and an ERROR row
C1_Witness ==
    /\ pc = "done"
    /\ Len(df) >= 3
    /\ \A k \in 1..(Len(df) - 1) :
          out_rows[k].input_title # out_rows[k + 1].input_title
    /\ \E k \in 1..Len(df) : hist[k].derive = "ok"
    /\ \E k \in 1..Len(df) : hist[k].search = "empty"
    /\ \E k \in 1..Len(df) : Failed(hist[k])

(***************************************************************************)
(* C2: a record whose search, detail fetch or tag derivation fails gets    *)
(* "ERROR: <message of the failure>" as its udio_tags, and the batch       *)
(* continues: every other record, before and after, has the row its own    *)
(* responses give it, and the batch ends with all rows.                    *)
(***************************************************************************)
C2_FailureIsRowLocal ==
    /\ pc = "done" => Len(out_rows) = Len(df)
    /\ \A k \in 1..Len(out_rows) :
          IF Failed(hist[k])
          THEN out_rows[k].udio_tags = <<"E","R","R","O","R",":"," ">> \o hist[k].msg
          ELSE IF hist[k].search = "empty"
               THEN out_rows[k].udio_tags = NO_MATCH
               ELSE /\ hist[k].derive = "ok"
                    /\ out_rows[k].udio_tags
                          = Join(CommaSpace, build_tag_list(rev, hist[k].rel, max_tags))

\* a finished batch of three whose middle record failed in its search
\* and whose first and last records are tagged
C2_Witness ==
    /\ pc = "done"
    /\ Len(df) = 3
    /\ hist[2].search = "error"
    /\ out_rows[2].udio_tags = ErrorPrefix \o hist[2].msg
    /\ hist[1].derive = "ok" /\ hist[1].rel = RichRelease
    /\ hist[3].derive = "ok" /\ hist[3].rel = RichRelease
    /\ out_rows[1].udio_tags # <<>>
    /\ out_rows[3].udio_tags = out_rows[1].udio_tags

(***************************************************************************)
(* C3: when the search returns an empty candidate list, choose_best        *)
(* returns None without raising and the record's udio_tags is exactly      *)
(* "NO_MATCH"; a record whose search returned candidates never gets        *)
(* "NO_MATCH".                                                             *)
(***************************************************************************)
C3_NoMatchSentinel ==
    \A k \in 1..Len(out_rows) :
        /\ hist[k].search = "empty" =>
              (hist[k].fetch = "none" /\ out_rows[k].udio_tags = NO_MATCH)
        /\ hist[k].search = "found" => out_rows[k].udio_tags # NO_MATCH

\* a batch with a NO_MATCH row for an empty search and another row for a
\* search that found candidates
C3_Witness ==
    /\ \E k \in 1..Len(out_rows) :
          hist[k].search = "empty" /\ out_rows[k].udio_tags = NO_MATCH
    /\ \E k \in 1..Len(out_rows) :
          hist[k].search = "found" /\ hist[k].derive = "ok"

(***************************************************************************)
(* C4: when tag derivation yields an empty tag sequence the driver         *)
(* substitutes a sentinel; an emitted udio_tags is never the empty string. *)
(***************************************************************************)
C4_NeverEmptyTags ==
    \A k \in 1..Len(out_rows) : out_rows[k].udio_tags # <<>>

(***************************************************************************)
(* The free-text ingest: the pasted text becomes the InputRecords.         *)
(***************************************************************************)
MaxLines == 2

\* lines as users paste them: one per rule of parse_line_natively, two no
\* rule applies to, a blank one and an empty one
LinePool ==
    { <<"A", " ", "-", " ", "B">>,
      <<"x", " ", "b", "y", " ", "Q">>,
      <<"a", ",", "b", ",", "c">>,
      <<"H", "i">>,
      <<"a", ",", " ", "b">>,
      <<" ">>,
      <<>> }

\* the button is enabled only when manual.strip() is not empty
TextPool ==
    {t \in {Join(<<Newline>>, ls) : ls \in SeqUpTo(LinePool, MaxLines)} :
        NonBlank(splitlines(t)) # <<>>}

\* the record whose title is the whole line
WholeLine(line) == [title |-> line, artist |-> <<>>, year |-> <<>>]

\* what the model may answer for the lines it was sent: an item that keeps
\* the line whole, or an item of its own making
GptItems(lines) ==
    {WholeLine(l) : l \in Range(lines)} \cup {[title |-> <<"G">>, artist |-> <<"Q">>, year |-> <<>>]}

InitNorm ==
    /\ rev \in Revisions
    /\ nz_pc = "in"
    /\ nz_text \in TextPool
    /\ nz_parsed = <<>>
    /\ nz_ambiguous = <<>>
    /\ nz_records = <<>>
    /\ nz_calls = 0
    /\ CleanIdle
    /\ TagsIdle
    /\ RankIdle
    /\ SearchIdle
    /\ DriverIdle

\* udio_tools: df = read_manual_paste(manual)
PasteStep ==
    /\ rev = "udio_tools"
    /\ nz_pc = "in"
    /\ nz_records' = read_manual_paste(nz_text)
    /\ nz_pc' = "done"
    /\ UNCHANGED <<rev, nz_text, nz_parsed, nz_ambiguous, nz_calls,
                   ct_vars, bt_vars, rk_vars, sq_vars, driver_vars>>

\* app: the loop over the lines, up to the request parse_ambiguous_with_gpt
\* sends when some line is left over
ParseStep ==
    /\ rev = "app"
    /\ nz_pc = "in"
    /\ LET lines == NonBlank(splitlines(nz_text)) IN
       /\ nz_parsed' = ParsedOf(lines)
       /\ nz_ambiguous' = AmbiguousOf(lines)
       /\ IF AmbiguousOf(lines) = <<>>
          THEN /\ nz_records' = ParsedOf(lines)
               /\ nz_pc' = "done"
               /\ nz_calls' = nz_calls
          ELSE /\ nz_records' = nz_records
               /\ nz_pc' = "gpt"
               /\ nz_calls' = nz_calls + 1
    /\ UNCHANGED <<rev, nz_text, ct_vars, bt_vars, rk_vars, sq_vars, driver_vars>>

\* app: the answer arrives and its items go behind the parsed records
GptReturns ==
    /\ nz_pc = "gpt"
    /\ \E amb \in SeqUpTo(GptItems(nz_ambiguous), MaxLines) :
          /\ nz_parsed' = nz_parsed \o amb
          /\ nz_records' = nz_parsed \o amb
    /\ nz_pc' = "done"
    /\ UNCHANGED <<rev, nz_text, nz_ambiguous, nz_calls,
                   ct_vars, bt_vars, rk_vars, sq_vars, driver_vars>>

\* app: the request or the reading of its answer raises: st.error and return
GptRaises ==
    /\ nz_pc = "gpt"
    /\ nz_pc' = "aborted"
    /\ UNCHANGED <<rev, nz_text, nz_parsed, nz_ambiguous, nz_records, nz_calls,
                   ct_vars, bt_vars, rk_vars, sq_vars, driver_vars>>

NextNorm ==
    \/ PasteStep
    \/ ParseStep
    \/ GptReturns
    \/ GptRaises

SpecNorm == InitNorm /\ [][NextNorm]_vars

\* C11: free text gives one InputRecord per non-blank line, in input order,
\* with no external call; a line that matches neither pattern and does not
\* split into three fields on its last two commas becomes, at its place, the
\* record whose title is the whole line, with empty artist and year.
C11_OneRecordPerLine ==
    /\ nz_calls = 0
    /\ nz_pc # "aborted"
    /\ nz_pc = "done" =>
          LET lines == NonBlank(splitlines(nz_text)) IN
          /\ Len(nz_records) = Len(lines)
          /\ \A k \in 1..Len(lines) :
                IF parse_line_natively(lines[k]) = None
                THEN nz_records[k] \in {WholeLine(lines[k]), WholeLine(Strip(lines[k]))}
                ELSE rev = "app" => nz_records[k] = parse_line_natively(lines[k])[1]

(***************************************************************************)
(* Progress reporting of the batch loop.                                   *)
(***************************************************************************)
\* fractions compared by cross multiplication, denominators positive
FracLess(a, b) == a.num * b.den < b.num * a.den
FracEq(a, b) == a.num * b.den = b.num * a.den

Completed == [num |-> Len(out_rows), den |-> Len(df)]

\* the state part: the bar shows (records completed)/N, which is 0 before
\* the first record, at most 1, and 1 once the batch is over
ProgressShowsCompleted ==
    (pc # "off" /\ Len(df) >= 1) =>
        /\ progress.den > 0
        /\ FracEq(progress, Completed)
        /\ Len(out_rows) = 0 => progress.num = 0
        /\ progress.num <= progress.den
        /\ pc = "done" => progress.num = progress.den

\* the step part: the bar moves exactly when a row is appended, whatever the
\* record's outcome, and then it moves up
ProgressMovesWithRows ==
    /\ (Len(out_rows') = Len(out_rows) + 1) <=> (progress' # progress)
    /\ progress' # progress => FracLess(progress, progress')
    /\ Len(out_rows') \in {Len(out_rows), Len(out_rows) + 1}

\* C12: in a batch of N >= 1 records the progress starts at 0, is set once
\* after each record, NO_MATCH and ERROR records included, to (records
\* completed)/N, rises strictly, never exceeds 1 and is 1 after the last
\* record.
C12_ProgressReporting ==
    /\ []ProgressShowsCompleted
    /\ [][ProgressMovesWithRows]_vars

\* a batch of three records has ended, one of them unmatched and one of
\* them failed, and the bar stands at 3/3
C12_Witness ==
    /\ pc = "done"
    /\ Len(df) = MaxRecords
    /\ progress = [num |-> MaxRecords, den |-> MaxRecords]
    /\ \E i \in 1..Len(hist) : hist[i].search = "empty"
    /\ \E j \in 1..Len(hist) : Failed(hist[j])

(***************************************************************************)
(* The per-record state machine of the batch loop.                         *)
(***************************************************************************)
\* the terminal outcome a row shows
RowOutcome(row) ==
    IF StartsWith(row.udio_tags, ErrorPrefix) THEN "FAILED"
    ELSE IF row.udio_tags = NO_MATCH THEN "NO_MATCH"
    ELSE "TAGGED"

\* the terminal outcome the calls made for a record lead to
CallsOutcome(h) ==
    IF Failed(h) THEN "FAILED"
    ELSE IF h.fetch = "ok" THEN "TAGGED"
    ELSE "NO_MATCH"

\* the state part: one record in hand at most, one search per record
\* started, a fetch only behind a search that found candidates, and every
\* finished record in the outcome its calls lead to
OneRecordAtATime ==
    pc # "off" =>
        /\ Len(out_rows) = idx
        /\ Len(hist) = idx + (IF pc = "fetch" THEN 1 ELSE 0)
        /\ pc = "done" => idx = Len(df)
        /\ pc = "fetch" => /\ hist[Len(hist)].search = "found"
                           /\ hist[Len(hist)].fetch = "none"
        /\ \A k \in 1..Len(hist) :
              /\ hist[k].search \in {"empty", "found", "error"}
              /\ hist[k].fetch \in {"none", "ok", "error"}
              /\ hist[k].fetch # "none" => hist[k].search = "found"
        /\ \A k \in 1..idx :
              RowOutcome(out_rows[k]) = CallsOutcome(hist[k])

\* the step part: the loop moves one record forward at most, in input
\* order, a call once made is not made again, and what is appended stays
NoRetryNoRevisit ==
    /\ idx' \in {idx, idx + 1}
    /\ Len(hist') \in {Len(hist), Len(hist) + 1}
    /\ Len(hist') = Len(hist) + 1 => pc = "search"
    /\ \A k \in 1..Len(hist) :
          /\ hist'[k].search = hist[k].search
          /\ hist[k].fetch # "none" => hist'[k] = hist[k]
          /\ k <= idx => hist'[k] = hist[k]
    /\ \A k \in 1..Len(out_rows) : out_rows'[k] = out_rows[k]
    /\ idx' = idx + 1 =>
          /\ Len(out_rows') = Len(out_rows) + 1
          /\ out_rows'[idx'].input_title = Label(df[idx'].title, df[idx'].artist)

\* C13: records are processed one at a time in input order with no retry:
\* one Candidate Search call per record, at most one Detail Fetch call and
\* only behind a search that returned candidates, and one terminal outcome
\* (TAGGED, NO_MATCH or FAILED) per record that stays as it is once its row
\* is appended.
C13_PerRecordStateMachine ==
    /\ []OneRecordAtATime
    /\ [][NoRetryNoRevisit]_vars

\* the third record's detail is being fetched after the first record ended
\* unmatched and the second failed in its fetch
C13_Witness ==
    /\ pc = "fetch"
    /\ idx = 2
    /\ hist[1].search = "empty" /\ hist[1].fetch = "none"
    /\ hist[2].search = "found" /\ hist[2].fetch = "error"
    /\ hist[3].search = "found" /\ hist[3].fetch = "none"
    /\ RowOutcome(out_rows[1]) = "NO_MATCH"
    /\ RowOutcome(out_rows[2]) = "FAILED"

=============================================================================
